---- MODULE Spec2Model ----
(***************************************************************************)
(* Model of the chapter boundary detection pipeline of                     *)
(* backend/readerai/pipeline/chapter_boundary_detector.py                  *)
(* (ChapterDetector.extract_all_chapters and the stages it calls), of      *)
(* TextChunker.chunk_stream (readerai/utils/text_chunker.py) and of        *)
(* TTSService.synthesize (backend/readerai/tts/service.py).  Each has its  *)
(* own specification; the variables of the other two stay idle in it.      *)
(*                                                                         *)
(* Strings are sequences of one-character strings.  The language model is  *)
(* an external collaborator: each of its answers is a nondeterministic     *)
(* choice from a small set at the moment the call returns.                 *)
(***************************************************************************)
EXTENDS Integers, Sequences, FiniteSets, TLC

\* ---------------------------------------------------------------- bounds
MaxLines == 3        \* lines of the document
MaxChapters == 2     \* entries of the chapter_list the LM returns
MaxInput == 6        \* characters of the stream handed to chunk_stream
MaxChunkSize == 3    \* max_chunk_size of the TextChunker
Overlap == 1         \* overlap of the TextChunker
MaxChunkCount == 2   \* chunk counts from here on are not told apart
MaxCalls == 2        \* synthesize calls made on the TTSService

\* ------------------------------------------------------- program constants
None == -1                   \* Python None of an int | None field
VerifyWindow == 2000         \* extracted_text[:2000]
ConfidenceThreshold == 80    \* 0.8, confidences are in hundredths

NL == "\n"
SP == " "

\* ------------------------------------------------------------ input sets
\* lines a document is made of
LineSet == { <<"a">>, <<"B">>, <<"c", " ", "d">> }
\* (start_pattern, end_pattern) answers of the LM: "(" does not compile,
\* the empty pattern matches every line, the other patterns are literals
BoundaryResponseSet ==
    { << <<"(">>, <<"a">> >>,
      << <<"a">>, <<"(">> >>,
      << <<"a">>, <<"b">> >>,
      << <<"a">>, <<"a">> >>,
      << <<"c">>, <<"b">> >>,
      << <<>>, <<"b">> >> }
\* lines of the chapter_list the LM returns
EntrySet == { <<"1", ".", " ", "A">>, <<"2", ".", " ", "B">> }
\* (is_correct, confidence, notes) answers of the LM, confidence in hundredths
VerifyResponseSet ==
    { << TRUE, 95, <<"o", "k">> >>,
      << TRUE, 80, <<"o", "k">> >>,
      << TRUE, 50, <<"l", "o", "w">> >>,
      << FALSE, 95, <<"n", "o">> >> }

SeqsUpTo(S, n) == UNION { [1..k -> S] : k \in 0..n }

\* ------------------------------------------------------- string functions
IsSpace(c) == c \in { SP, NL }

\* "\n".join(parts)
RECURSIVE Join(_)
Join(parts) ==
    IF Len(parts) = 0 THEN <<>>
    ELSE IF Len(parts) = 1 THEN parts[1]
    ELSE parts[1] \o <<NL>> \o Join(Tail(parts))

\* s.split("\n"): always at least one segment
RECURSIVE SplitFrom(_, _, _)
SplitFrom(s, i, cur) ==
    IF i > Len(s) THEN <<cur>>
    ELSE IF s[i] = NL THEN <<cur>> \o SplitFrom(s, i + 1, <<>>)
    ELSE SplitFrom(s, i + 1, Append(cur, s[i]))

Split(s) == SplitFrom(s, 1, <<>>)

\* s[:n]
Prefix(s, n) == IF Len(s) <= n THEN s ELSE SubSeq(s, 1, n)

\* s.strip()
RECURSIVE LStrip(_)
LStrip(s) == IF Len(s) > 0 /\ IsSpace(s[1]) THEN LStrip(Tail(s)) ELSE s

RECURSIVE RStrip(_)
RStrip(s) ==
    IF Len(s) > 0 /\ IsSpace(s[Len(s)]) THEN RStrip(SubSeq(s, 1, Len(s) - 1)) ELSE s

Strip(s) == RStrip(LStrip(s))

\* len(s.split(" ")): one more than the number of blanks
WordCount_SplitSpace(s) ==
    Cardinality({ i \in 1..Len(s) : s[i] = SP }) + 1

\* len(s.split()): number of maximal runs of non-whitespace characters
WordCount(s) ==
    Cardinality({ i \in 1..Len(s) :
        /\ ~IsSpace(s[i])
        /\ (i = 1 \/ IsSpace(s[i - 1])) })

\* --------------------------------------------------------- regex (re module)
\* re.IGNORECASE
Fold(c) == IF c = "A" THEN "a" ELSE IF c = "B" THEN "b" ELSE c

\* re.compile(p) succeeds; an unbalanced parenthesis raises re.error
Compiles(p) == \A i \in 1..Len(p) : p[i] # "("

\* the literal p occurs in line at position k, ignoring case
OccursAt(p, line, k) ==
    /\ k + Len(p) - 1 <= Len(line)
    /\ \A j \in 1..Len(p) : Fold(p[j]) = Fold(line[k + j - 1])

\* regex.search(line) is not None, for a literal with an optional leading ^
Search(p, line) ==
    IF Len(p) > 0 /\ p[1] = "^"
    THEN OccursAt(Tail(p), line, 1)
    ELSE \E k \in 1..(Len(line) + 1) : OccursAt(p, line, k)

\* [i for i, line in enumerate(lines) if regex.search(line)], 0-based
RECURSIVE MatchesFrom(_, _, _)
MatchesFrom(p, lines, i) ==
    IF i > Len(lines) THEN <<>>
    ELSE (IF Search(p, lines[i]) THEN <<i - 1>> ELSE <<>>)
         \o MatchesFrom(p, lines, i + 1)

Matches(p, lines) == MatchesFrom(p, lines, 1)

\* ------------------------------------------------- stage 1: identify_chapters
Digits == { "0", "1", "2", "3", "4", "5", "6", "7", "8", "9" }

DigitVal(c) ==
    CASE c = "0" -> 0 [] c = "1" -> 1 [] c = "2" -> 2 [] c = "3" -> 3
      [] c = "4" -> 4 [] c = "5" -> 5 [] c = "6" -> 6 [] c = "7" -> 7
      [] c = "8" -> 8 [] c = "9" -> 9

RECURSIVE DigitsVal(_)
DigitsVal(s) ==
    IF Len(s) = 0 THEN 0
    ELSE 10 * DigitsVal(SubSeq(s, 1, Len(s) - 1)) + DigitVal(s[Len(s)])

\* the body of an int literal: surrounding whitespace and one sign are allowed
IntBody(s) ==
    LET t == Strip(s)
    IN  IF Len(t) > 0 /\ t[1] \in { "-", "+" } THEN Tail(t) ELSE t

\* int(s) does not raise ValueError
IsInt(s) ==
    /\ Len(IntBody(s)) > 0
    /\ \A i \in 1..Len(IntBody(s)) : IntBody(s)[i] \in Digits

\* int(s)
IntOf(s) ==
    LET t == Strip(s)
    IN  IF Len(t) > 0 /\ t[1] = "-" THEN 0 - DigitsVal(IntBody(s))
        ELSE DigitsVal(IntBody(s))

\* positions k of line where ". " starts
DotSpaceAt(line) ==
    { k \in 1..(Len(line) - 1) : line[k] = "." /\ line[k + 1] = SP }

\* ". " in line
HasDotSpace(line) == DotSpaceAt(line) # {}

FirstDotSpace(line) ==
    CHOOSE k \in DotSpaceAt(line) : \A m \in DotSpaceAt(line) : k <= m

\* line.split(". ", 1)
NumStr(line) == SubSeq(line, 1, FirstDotSpace(line) - 1)
TitleStr(line) == SubSeq(line, FirstDotSpace(line) + 2, Len(line))

\* the loop body of identify_chapters for one line of chapter_list:
\* the chapters appended for it (none or one)
ParseLine(raw) ==
    LET line == Strip(raw)
    IN  IF Len(line) > 0 /\ HasDotSpace(line)
        THEN IF IsInt(NumStr(line))
             THEN << <<IntOf(NumStr(line)), TitleStr(line)>> >>
             ELSE <<>>
        ELSE <<>>

RECURSIVE ParseLines(_)
ParseLines(ls) ==
    IF Len(ls) = 0 THEN <<>>
    ELSE ParseLine(ls[1]) \o ParseLines(Tail(ls))

\* the chapters identify_chapters returns for the LM's chapter_list
ParseChapterList(chapter_list) == ParseLines(Split(chapter_list))

\* the chapter_list strings the LM may return
ChapterListSet == { Join(es) : es \in SeqsUpTo(EntrySet, MaxChapters) }

\* chapter_list lines that give one number to two titles
DupEntrySet == { <<"1", ".", " ", "A">>, <<"1", ".", " ", "C">> }
DupChapterListSet == { Join(es) : es \in SeqsUpTo(DupEntrySet, MaxChapters) }

\* --------------------------------- stage 2: generate_boundary_patterns_async
\* ChapterBoundaryPair(chapter_number, chapter_title, start_pattern, end_pattern)
NewPair(num, title, sp, ep) ==
    [ chapter_number |-> num,
      chapter_title  |-> title,
      start_pattern  |-> sp,
      end_pattern    |-> ep,
      start_line     |-> None,
      end_line       |-> None,
      is_valid       |-> FALSE ]

\* insert pair x into the sorted sequence s after every pair whose key
\* is not larger (list.sort is stable)
RECURSIVE InsertSorted(_, _)
InsertSorted(s, x) ==
    IF Len(s) = 0 THEN <<x>>
    ELSE IF s[Len(s)].chapter_number <= x.chapter_number THEN Append(s, x)
    ELSE Append(InsertSorted(SubSeq(s, 1, Len(s) - 1), x), s[Len(s)])

\* the list left in completion order
SortByNumber_None(s) == s

\* results.sort(key=lambda x: x.chapter_number)
RECURSIVE SortByNumber(_)
SortByNumber(s) ==
    IF Len(s) = 0 THEN <<>>
    ELSE InsertSorted(SortByNumber(SubSeq(s, 1, Len(s) - 1)), s[Len(s)])

\* ------------------------------------------------ stage 3: validate_patterns
\* the first occurrence is picked when a pattern matches several lines
ValidatePair_FirstMatch(lines, pair) ==
    IF ~Compiles(pair.start_pattern) THEN [pair EXCEPT !.is_valid = FALSE]
    ELSE IF ~Compiles(pair.end_pattern) THEN [pair EXCEPT !.is_valid = FALSE]
    ELSE LET start_matches == Matches(pair.start_pattern, lines)
             end_matches == Matches(pair.end_pattern, lines)
         IN  IF Len(start_matches) >= 1 /\ Len(end_matches) >= 1
             THEN [pair EXCEPT !.start_line = start_matches[1],
                               !.end_line = end_matches[1],
                               !.is_valid = start_matches[1] < end_matches[1]]
             ELSE [pair EXCEPT !.is_valid = FALSE]

\* two unique matches are accepted whatever their order
ValidatePair_NoOrder(lines, pair) ==
    IF ~Compiles(pair.start_pattern) THEN [pair EXCEPT !.is_valid = FALSE]
    ELSE IF ~Compiles(pair.end_pattern) THEN [pair EXCEPT !.is_valid = FALSE]
    ELSE LET start_matches == Matches(pair.start_pattern, lines)
             end_matches == Matches(pair.end_pattern, lines)
         IN  IF Len(start_matches) = 1 /\ Len(end_matches) = 1
             THEN [pair EXCEPT !.start_line = start_matches[1],
                               !.end_line = end_matches[1],
                               !.is_valid = TRUE]
             ELSE [pair EXCEPT !.is_valid = FALSE]

\* the loop body of validate_patterns for one pair
ValidatePair(lines, pair) ==
    IF ~Compiles(pair.start_pattern) THEN [pair EXCEPT !.is_valid = FALSE]
    ELSE IF ~Compiles(pair.end_pattern) THEN [pair EXCEPT !.is_valid = FALSE]
    ELSE LET start_matches == Matches(pair.start_pattern, lines)
             end_matches == Matches(pair.end_pattern, lines)
         IN  IF Len(start_matches) = 1 /\ Len(end_matches) = 1
             THEN [pair EXCEPT !.start_line = start_matches[1],
                               !.end_line = end_matches[1],
                               !.is_valid = start_matches[1] < end_matches[1]]
             ELSE [pair EXCEPT !.is_valid = FALSE]

\* the loop stops at the first pair with a pattern that does not compile
ValidatePatterns_AbortOnError(t, pairs) ==
    LET lines == Split(t)
        bad == { j \in 1..Len(pairs) :
                   ~Compiles(pairs[j].start_pattern) \/ ~Compiles(pairs[j].end_pattern) }
    IN  [ i \in 1..Len(pairs) |->
            IF \E j \in bad : j < i THEN pairs[i]
            ELSE ValidatePair(lines, pairs[i]) ]

\* one invalid pair makes every pair of the list invalid
ValidatePatterns_AllOrNothing(t, pairs) ==
    LET lines == Split(t)
        all_valid == \A j \in 1..Len(pairs) : ValidatePair(lines, pairs[j]).is_valid
    IN  [ i \in 1..Len(pairs) |->
            [ ValidatePair(lines, pairs[i]) EXCEPT !.is_valid = all_valid ] ]

\* only the valid pairs are returned
ValidatePatterns_DropInvalid(t, pairs) ==
    LET lines == Split(t)
    IN  SelectSeq([ i \in 1..Len(pairs) |-> ValidatePair(lines, pairs[i]) ],
                  LAMBDA pair : pair.is_valid)

\* validate_patterns(text, boundary_pairs)
ValidatePatterns(t, pairs) ==
    LET lines == Split(t)
    IN  [ i \in 1..Len(pairs) |-> ValidatePair(lines, pairs[i]) ]

\* ---------------------------------------------------- stage 4: extraction
\* text_lines[a : b] for 0 <= a
Slice(text_lines, a, b) ==
    LET hi == IF b > Len(text_lines) THEN Len(text_lines) ELSE b
    IN  IF a >= hi THEN <<>> ELSE SubSeq(text_lines, a + 1, hi)

\* the end line is left out of the slice
ExtractChapter_Exclusive(text_lines, pair) ==
    IF ~pair.is_valid THEN <<>>
    ELSE IF pair.start_line = None \/ pair.end_line = None THEN <<>>
    ELSE Join(Slice(text_lines, pair.start_line, pair.end_line))

\* extract_chapter(text_lines, boundary_pair)
ExtractChapter(text_lines, pair) ==
    IF ~pair.is_valid THEN <<>>
    ELSE IF pair.start_line = None \/ pair.end_line = None THEN <<>>
    ELSE Join(Slice(text_lines, pair.start_line, pair.end_line + 1))

\* line numbers reported 1-based
OrZero_OneBased(x) == IF x = None THEN 0 ELSE x + 1

\* x or 0
OrZero(x) == IF x = None \/ x = 0 THEN 0 ELSE x

\* "or" in place of "and"
VerificationPassed_Or(is_correct, confidence) ==
    is_correct \/ confidence > ConfidenceThreshold

\* is_correct and confidence > 0.8
VerificationPassed(is_correct, confidence) ==
    is_correct /\ confidence > ConfidenceThreshold

\* ChapterExtractionResult(...) built in the loop of extract_all_chapters
NewResult(pair, chapter_text, is_correct, confidence, notes) ==
    [ chapter_number      |-> pair.chapter_number,
      chapter_title       |-> pair.chapter_title,
      text                |-> chapter_text,
      start_line          |-> OrZero(pair.start_line),
      end_line            |-> OrZero(pair.end_line),
      word_count          |-> WordCount(chapter_text),
      verification_passed |-> VerificationPassed(is_correct, confidence),
      verification_notes  |-> notes ]

\* invalid pairs are not skipped
NextValid_NoSkip(pairs, i) == i

\* the pair just verified is verified again
NextValid_Repeat(pairs, i) ==
    LET valid == { n \in i..Len(pairs) : pairs[n].is_valid }
    IN  IF i > 1 THEN i - 1
        ELSE IF valid = {} THEN Len(pairs) + 1
        ELSE CHOOSE n \in valid : \A m \in valid : n <= m

\* index of the first valid pair at or after position i, or Len + 1:
\* the "if not pair.is_valid: continue" of the extraction loop
RECURSIVE NextValid(_, _)
NextValid(pairs, i) ==
    IF i > Len(pairs) THEN i
    ELSE IF pairs[i].is_valid THEN i
    ELSE NextValid(pairs, i + 1)

\* ------------------------------------------------------------------ state
VARIABLES
    text,            \* the document handed to extract_all_chapters
    pc,              \* position of extract_all_chapters
    chapter_count,   \* chapter_count returned by identify_chapters
    chapters,        \* (number, title) list returned by identify_chapters
    tasks,           \* state of each collect_result task of the task group
    lm_boundary,     \* the LM's answer to each chapter's boundary call, where fixed
    cancelled,       \* the task group's cancel scope has been cancelled
    results,         \* the results list of generate_all_boundaries
    boundary_pairs,  \* boundary_pairs of extract_all_chapters (the same list object)
    idx,             \* position of the extraction loop in boundary_pairs
    out,             \* the results list of extract_all_chapters
    lm_verify,       \* the verify calls answered by the LM: argument and response
    raised_by,       \* the stage whose exception left extract_all_chapters
    cancel_requested, \* the caller has cancelled the extract_all_chapters call
    \* TextChunker.chunk_stream
    input_stream,    \* the content of the stream handed to chunk_stream
    stream_pos,      \* the read position of the stream
    buffer,          \* buffer of chunk_stream
    eof,             \* eof of chunk_stream
    chunk_count,     \* chunk_count of chunk_stream
    yielded,         \* number of chunks the generator has yielded
    cpc,             \* position of chunk_stream
    \* TTSService.synthesize
    s3,              \* keys of the objects in the audio cache bucket
    calls,           \* the synthesize calls: position, request and locals
    \* TTSService.synthesize_batch
    batch_items,     \* batch_request.items
    temp_results,    \* temp_results of synthesize_batch: (idx, response) tuples
    batch_results,   \* the results of the TTSBatchResponse returned
    bpc              \* position of synthesize_batch

pipeline_vars == << text, pc, chapter_count, chapters, tasks, lm_boundary, cancelled, results, boundary_pairs,
                   idx, out, lm_verify, raised_by, cancel_requested >>

chunker_vars == << input_stream, stream_pos, buffer, eof, chunk_count, yielded, cpc >>

batch_vars == << batch_items, temp_results, batch_results, bpc >>

tts_vars == << s3, calls, batch_vars >>

vars == << pipeline_vars, chunker_vars, tts_vars >>

\* no synthesize call has been made and the bucket is empty
\* no synthesize_batch call is in progress
BatchIdle ==
    /\ batch_items = <<>>
    /\ temp_results = <<>>
    /\ batch_results = <<>>
    /\ bpc = "idle"

TTSIdle ==
    /\ s3 = {}
    /\ calls = <<>>
    /\ BatchIdle

\* no chunk_stream call is in progress
ChunkerIdle ==
    /\ input_stream = <<>>
    /\ stream_pos = 0
    /\ buffer = <<>>
    /\ eof = FALSE
    /\ chunk_count = 0
    /\ yielded = 0
    /\ cpc = "idle"

\* no extract_all_chapters call is in progress
PipelineIdle ==
    /\ text = <<>>
    /\ pc = "idle"
    /\ chapter_count = 0
    /\ chapters = <<>>
    /\ tasks = <<>>
    /\ lm_boundary = <<>>
    /\ cancelled = FALSE
    /\ results = <<>>
    /\ boundary_pairs = <<>>
    /\ idx = 0
    /\ out = <<>>
    /\ lm_verify = <<>>
    /\ raised_by = "none"
    /\ cancel_requested = FALSE

DocumentSet == { Join(ls) : ls \in (SeqsUpTo(LineSet, MaxLines) \ { <<>> }) }

Init ==
    /\ text \in DocumentSet
    /\ pc = "start"
    /\ chapter_count = 0
    /\ chapters = <<>>
    /\ tasks = <<>>
    /\ lm_boundary = <<>>
    /\ cancelled = FALSE
    /\ results = <<>>
    /\ boundary_pairs = <<>>
    /\ idx = 0
    /\ out = <<>>
    /\ lm_verify = <<>>
    /\ raised_by = "none"
    /\ cancel_requested = FALSE
    /\ ChunkerIdle
    /\ TTSIdle

\* ---------------------------------------------------------------- actions
\* the chapter_count values the LM may return next to a list that parses to
\* chs: the length of the list, or any small count
ChapterCountSet(chs, any_count) ==
    IF any_count THEN 0..(MaxChapters + 1) ELSE { Len(chs) }

\* one task per entry of chapter_count
TaskCount_FromCount(count, chs) == count

\* "for num, title in chapters: tg.start_soon(...)": one task per parsed chapter
TaskCount(count, chs) == Len(chs)

\* extract_all_chapters up to its first suspension: identify_chapters returns
\* and generate_all_boundaries starts one collect_result task per chapter
IdentifyWith(lists, any_count) ==
    /\ pc = "start"
    /\ \E chapter_list \in lists :
          \E parsed \in { ParseChapterList(chapter_list) } :
             \E count \in ChapterCountSet(parsed, any_count) :
                /\ chapter_count' = count
                /\ chapters' = parsed
                /\ tasks' = [ i \in 1..TaskCount(count, parsed) |-> "pending" ]
    /\ pc' = "stage2"
    /\ UNCHANGED << text, cancelled, results, boundary_pairs, idx, out,
                    lm_verify, raised_by, cancel_requested >>
    /\ UNCHANGED << lm_boundary, chunker_vars, tts_vars >>

\* the same step when the LM's chapter_count is the length of its list
IdentifyFrom(lists) == IdentifyWith(lists, FALSE)

Identify == IdentifyFrom(ChapterListSet)

\* the same step when the LM numbers two different titles alike
IdentifyDup == IdentifyFrom(DupChapterListSet)

\* the identification LM call raises: nothing catches it
IdentifyFail ==
    /\ pc = "start"
    /\ pc' = "raised"
    /\ raised_by' = "identify"
    /\ UNCHANGED << text, chapters, tasks, cancelled, results, boundary_pairs,
                    idx, out, lm_verify, cancel_requested >>
    /\ UNCHANGED << chapter_count, lm_boundary, chunker_vars, tts_vars >>

\* every task works on the chapter that was started last
TaskChapter_LateBinding(i) == chapters[Len(chapters)]

\* the (num, title) arguments of the collect_result task of chapter i
TaskChapter(i) == chapters[i]

\* collect_result of chapter i: the worker thread returns the LM's patterns
\* and the pair is appended (the thread call is shielded from cancellation)
BoundaryDoneWith(i, responses) ==
    /\ pc = "stage2"
    /\ tasks[i] = "pending"
    /\ \E r \in responses :
          results' = Append(results,
                            NewPair(TaskChapter(i)[1], TaskChapter(i)[2], r[1], r[2]))
    /\ tasks' = [tasks EXCEPT ![i] = "done"]
    /\ UNCHANGED << text, pc, chapters, cancelled, boundary_pairs, idx, out,
                    lm_verify, raised_by, cancel_requested >>
    /\ UNCHANGED << chapter_count, lm_boundary, chunker_vars, tts_vars >>

BoundaryDone(i) == BoundaryDoneWith(i, BoundaryResponseSet)

\* collect_result of chapter i: the LM call raises, the task ends with the
\* exception and the task group cancels its scope
BoundaryFail(i) ==
    /\ pc = "stage2"
    /\ tasks[i] = "pending"
    /\ tasks' = [tasks EXCEPT ![i] = "failed"]
    /\ cancelled' = TRUE
    /\ UNCHANGED << text, pc, chapters, results, boundary_pairs, idx, out,
                    lm_verify, raised_by, cancel_requested >>
    /\ UNCHANGED << chapter_count, lm_boundary, chunker_vars, tts_vars >>

\* collect_result of chapter i is cancelled before its worker thread started
\* (it was still waiting at the checkpoint or for the thread limiter)
BoundaryCancelled(i) ==
    /\ pc = "stage2"
    /\ cancelled
    /\ tasks[i] = "pending"
    /\ tasks' = [tasks EXCEPT ![i] = "cancelled"]
    /\ UNCHANGED << text, pc, chapters, cancelled, results, boundary_pairs,
                    idx, out, lm_verify, raised_by, cancel_requested >>
    /\ UNCHANGED << chapter_count, lm_boundary, chunker_vars, tts_vars >>

\* the task group is left as soon as one task has ended
AllTasksEnded_Any == \E i \in 1..Len(tasks) : tasks[i] # "pending"

\* every task of the task group has ended
AllTasksEnded == \A i \in 1..Len(tasks) : tasks[i] # "pending"

\* a task group without tasks counts as failed
SomeTaskFailed_OrEmpty ==
    Len(tasks) = 0 \/ \E i \in 1..Len(tasks) : tasks[i] = "failed"

SomeTaskFailed == \E i \in 1..Len(tasks) : tasks[i] = "failed"

\* the task group exits with the exception of a failed task: it leaves
\* generate_all_boundaries and extract_all_chapters
BoundariesRaise ==
    /\ pc = "stage2"
    /\ AllTasksEnded
    /\ SomeTaskFailed
    /\ pc' = "raised"
    /\ raised_by' = "boundary"
    /\ UNCHANGED << text, chapters, tasks, cancelled, results, boundary_pairs,
                    idx, out, lm_verify, cancel_requested >>
    /\ UNCHANGED << chapter_count, lm_boundary, chunker_vars, tts_vars >>

\* the task group exits normally: results is sorted in place and returned,
\* validate_patterns updates its pairs in place, and the extraction loop runs
\* up to the first verify call (or to the return when no pair is valid)
BoundariesJoined ==
    /\ pc = "stage2"
    /\ AllTasksEnded
    /\ ~SomeTaskFailed
    /\ ~cancel_requested
    /\ \E validated \in { ValidatePatterns(text, SortByNumber(results)) } :
          \E k \in { NextValid(validated, 1) } :
             /\ results' = validated
             /\ boundary_pairs' = validated
             /\ idx' = k
             /\ pc' = IF k > Len(validated) THEN "done" ELSE "stage4"
    /\ UNCHANGED << text, chapters, tasks, cancelled, out, lm_verify, raised_by,
                    cancel_requested >>
    /\ UNCHANGED << chapter_count, lm_boundary, chunker_vars, tts_vars >>

\* the verify call of the current pair returns: the result is built and
\* appended, and the loop runs to the next verify call or to the return; a
\* pending cancellation is delivered at the checkpoint of the next call
VerifyDone ==
    /\ pc = "stage4"
    /\ \E r \in VerifyResponseSet :
          LET pair == boundary_pairs[idx]
              chapter_text == ExtractChapter(Split(text), pair)
          IN  /\ out' = Append(out, NewResult(pair, chapter_text, r[1], r[2], r[3]))
              /\ lm_verify' = Append(lm_verify,
                                     [ extracted_text |-> Prefix(chapter_text, VerifyWindow),
                                       is_correct |-> r[1],
                                       confidence |-> r[2],
                                       notes      |-> r[3] ])
    /\ idx' = NextValid(boundary_pairs, idx + 1)
    /\ pc' = IF NextValid(boundary_pairs, idx + 1) > Len(boundary_pairs) THEN "done"
             ELSE IF cancel_requested THEN "raised"
             ELSE "stage4"
    /\ raised_by' = IF NextValid(boundary_pairs, idx + 1) <= Len(boundary_pairs)
                       /\ cancel_requested
                    THEN "cancelled" ELSE raised_by
    /\ UNCHANGED << text, chapters, tasks, cancelled, results, boundary_pairs,
                    cancel_requested >>
    /\ UNCHANGED << chapter_count, lm_boundary, chunker_vars, tts_vars >>

\* the verify call of the current pair raises: nothing catches it
VerifyFail ==
    /\ pc = "stage4"
    /\ pc' = "raised"
    /\ raised_by' = "verify"
    /\ UNCHANGED << text, chapters, tasks, cancelled, results, boundary_pairs,
                    idx, out, lm_verify, cancel_requested >>
    /\ UNCHANGED << chapter_count, lm_boundary, chunker_vars, tts_vars >>

Next ==
    \/ Identify
    \/ IdentifyFail
    \/ \E i \in 1..Len(tasks) : BoundaryDone(i)
    \/ \E i \in 1..Len(tasks) : BoundaryFail(i)
    \/ \E i \in 1..Len(tasks) : BoundaryCancelled(i)
    \/ BoundariesRaise
    \/ BoundariesJoined
    \/ VerifyDone
    \/ VerifyFail

Spec == Init /\ [][Next]_vars

\* the same behaviours, named again so that the properties of the run as a
\* whole and those of the single pairs are each explored on their own
SpecRun == Init /\ [][Next]_vars
SpecPairs == Init /\ [][Next]_vars

\* --------------------------------------------- cancellation by the caller
\* an LM call is running in a worker thread or waiting to be started
LMCallOutstanding ==
    \/ pc = "stage2" /\ \E i \in 1..Len(tasks) : tasks[i] = "pending"
    \/ pc = "stage4"

\* the caller cancels the scope extract_all_chapters runs in: in stage 2 the
\* cancellation reaches the task group's scope
Cancel ==
    /\ LMCallOutstanding
    /\ ~cancel_requested
    /\ cancel_requested' = TRUE
    /\ cancelled' = (cancelled \/ pc = "stage2")
    /\ UNCHANGED << text, pc, chapters, tasks, results, boundary_pairs, idx, out,
                    lm_verify, raised_by >>
    /\ UNCHANGED << chapter_count, lm_boundary, chunker_vars, tts_vars >>

\* every task of the cancelled task group has ended: the cancellation leaves
\* generate_all_boundaries and extract_all_chapters
CancelledRaise ==
    /\ pc = "stage2"
    /\ AllTasksEnded
    /\ ~SomeTaskFailed
    /\ cancel_requested
    /\ pc' = "raised"
    /\ raised_by' = "cancelled"
    /\ UNCHANGED << text, chapters, tasks, cancelled, results, boundary_pairs,
                    idx, out, lm_verify, cancel_requested >>
    /\ UNCHANGED << chapter_count, lm_boundary, chunker_vars, tts_vars >>

NextCancel ==
    \/ Identify
    \/ IdentifyFail
    \/ \E i \in 1..Len(tasks) : BoundaryDone(i)
    \/ \E i \in 1..Len(tasks) : BoundaryFail(i)
    \/ \E i \in 1..Len(tasks) : BoundaryCancelled(i)
    \/ BoundariesRaise
    \/ BoundariesJoined
    \/ VerifyDone
    \/ VerifyFail
    \/ Cancel
    \/ CancelledRaise

SpecCancel == Init /\ [][NextCancel]_vars

\* the pipeline on chapter lists that repeat a number
NextDup ==
    \/ IdentifyDup
    \/ IdentifyFail
    \/ \E i \in 1..Len(tasks) : BoundaryDone(i)
    \/ \E i \in 1..Len(tasks) : BoundaryFail(i)
    \/ \E i \in 1..Len(tasks) : BoundaryCancelled(i)
    \/ BoundariesRaise
    \/ BoundariesJoined
    \/ VerifyDone
    \/ VerifyFail

SpecDup == Init /\ [][NextDup]_vars

\* the documents of less than MaxLines lines
ShortDocumentSet ==
    { Join(ls) : ls \in (SeqsUpTo(LineSet, MaxLines - 1) \ { <<>> }) }

\* ------------------------ the pipeline when chapter_count may differ from
\* the length of the parsed list
InitCount ==
    /\ text \in ShortDocumentSet
    /\ pc = "start"
    /\ chapter_count = 0
    /\ chapters = <<>>
    /\ tasks = <<>>
    /\ lm_boundary = <<>>
    /\ cancelled = FALSE
    /\ results = <<>>
    /\ boundary_pairs = <<>>
    /\ idx = 0
    /\ out = <<>>
    /\ lm_verify = <<>>
    /\ raised_by = "none"
    /\ cancel_requested = FALSE
    /\ ChunkerIdle
    /\ TTSIdle

IdentifyCount == IdentifyWith(ChapterListSet, TRUE)

NextCount ==
    \/ IdentifyCount
    \/ IdentifyFail
    \/ \E i \in 1..Len(tasks) : BoundaryDone(i)
    \/ \E i \in 1..Len(tasks) : BoundaryFail(i)
    \/ \E i \in 1..Len(tasks) : BoundaryCancelled(i)
    \/ BoundariesRaise
    \/ BoundariesJoined
    \/ VerifyDone
    \/ VerifyFail

SpecCount == InitCount /\ [][NextCount]_vars

\* ------------------------------------- identify_chapters on any chapter_list
\* lines of a chapter_list: well-formed, numbered 0, numbered below 0, with
\* two blanks after the dot, without number, without blank after the dot,
\* and padded with blanks
ParseLineSet ==
    { <<"1", ".", " ", "A">>,
      <<"0", ".", " ", "A">>,
      <<"-", "1", ".", " ", "A">>,
      <<"1", ".", " ", " ", "A">>,
      <<"x">>,
      <<"x", ".", " ", "A">>,
      <<"1", ".", "A">>,
      <<" ", "2", ".", " ", "B", " ">> }
ParseListSet == { Join(es) : es \in SeqsUpTo(ParseLineSet, MaxChapters) }

\* identify_chapters returns for one of these chapter_list strings
IdentifyParse == IdentifyFrom(ParseListSet)

NextParse == IdentifyParse

SpecParse == Init /\ [][NextParse]_vars

\* -------------------------------- generate_all_boundaries called on its own
\* generate_all_boundaries(text, chapters) has started its tasks; the answer
\* the LM gives to the call of each chapter is fixed
InitBoundaries ==
    /\ text \in LineSet
    /\ pc = "stage2"
    /\ chapter_count = 0
    /\ chapters \in { ParseChapterList(chapter_list) : chapter_list \in ChapterListSet }
    /\ tasks = [ i \in 1..Len(chapters) |-> "pending" ]
    /\ lm_boundary \in [ 1..Len(chapters) -> BoundaryResponseSet ]
    /\ cancelled = FALSE
    /\ results = <<>>
    /\ boundary_pairs = <<>>
    /\ idx = 0
    /\ out = <<>>
    /\ lm_verify = <<>>
    /\ raised_by = "none"
    /\ cancel_requested = FALSE
    /\ ChunkerIdle
    /\ TTSIdle

\* collect_result of chapter i: the LM returns its answer to that call
BoundaryAnswered(i) == BoundaryDoneWith(i, { lm_boundary[i] })

\* the task group exits normally: results is sorted in place and returned
BoundariesReturn ==
    /\ pc = "stage2"
    /\ AllTasksEnded
    /\ ~SomeTaskFailed
    /\ results' = SortByNumber(results)
    /\ pc' = "returned"
    /\ UNCHANGED << text, chapters, tasks, cancelled, boundary_pairs, idx, out,
                    lm_verify, raised_by, cancel_requested >>
    /\ UNCHANGED << chapter_count, lm_boundary, chunker_vars, tts_vars >>

NextBoundaries ==
    \/ \E i \in 1..Len(tasks) : BoundaryAnswered(i)
    \/ \E i \in 1..Len(tasks) : BoundaryFail(i)
    \/ \E i \in 1..Len(tasks) : BoundaryCancelled(i)
    \/ BoundariesRaise
    \/ BoundariesReturn

SpecBoundaries == InitBoundaries /\ [][NextBoundaries]_vars

\* ------------------------------------- validate_patterns called on its own
\* lists of fresh pairs, one per chapter 1..k, with patterns of the LM
FreshPairsSet ==
    { [ i \in 1..Len(rs) |-> NewPair(i, <<"A">>, rs[i][1], rs[i][2]) ] :
        rs \in (SeqsUpTo(BoundaryResponseSet, MaxChapters) \ { <<>> }) }

InitValidate ==
    /\ text \in ShortDocumentSet
    /\ pc = "fresh"
    /\ chapter_count = 0
    /\ chapters = <<>>
    /\ tasks = <<>>
    /\ lm_boundary = <<>>
    /\ cancelled = FALSE
    /\ results = <<>>
    /\ boundary_pairs \in FreshPairsSet
    /\ idx = 0
    /\ out = <<>>
    /\ lm_verify = <<>>
    /\ raised_by = "none"
    /\ cancel_requested = FALSE
    /\ ChunkerIdle
    /\ TTSIdle

\* validate_patterns(t, boundary_pairs): a first call on the fresh pairs,
\* then a second on the pair objects as the first call left them; the fields
\* are updated in place
ValidateCall ==
    /\ pc \in { "fresh", "validated" }
    /\ \E t \in ShortDocumentSet :
          /\ text' = t
          /\ boundary_pairs' = ValidatePatterns(t, boundary_pairs)
    /\ pc' = IF pc = "fresh" THEN "validated" ELSE "revalidated"
    /\ UNCHANGED << chapters, tasks, cancelled, results, idx, out, lm_verify,
                    raised_by, cancel_requested >>
    /\ UNCHANGED << chapter_count, lm_boundary, chunker_vars, tts_vars >>

NextValidate == ValidateCall

SpecValidate == InitValidate /\ [][NextValidate]_vars

\* ------------------------------------------------ TextChunker.chunk_stream
\* characters of the stream
CharSet == { "x", NL }
InputSet == SeqsUpTo(CharSet, MaxInput)

Min(a, b) == IF a <= b THEN a ELSE b
Max(a, b) == IF a >= b THEN a ELSE b

\* the position after the line that starts at pos: behind its newline, or
\* the end of the stream
LineEnd(s, pos) ==
    IF \E k \in (pos + 1)..Len(s) : s[k] = NL
    THEN CHOOSE k \in (pos + 1)..Len(s) :
             s[k] = NL /\ \A m \in (pos + 1)..(k - 1) : s[m] # NL
    ELSE Len(s)

\* input_stream.readline() at position pos ("" at the end of the stream)
ReadLine(s, pos) == SubSeq(s, pos + 1, LineEnd(s, pos))

\* the loop "while len(buffer) < max_chunk_size and not eof": the buffer,
\* the stream position and eof it ends with
RECURSIVE FillBuffer(_, _, _, _)
FillBuffer(buf, s, pos, e) ==
    IF Len(buf) < MaxChunkSize /\ ~e
    THEN IF Len(ReadLine(s, pos)) = 0 THEN << buf, pos, TRUE >>
         ELSE FillBuffer(buf \o ReadLine(s, pos), s, LineEnd(s, pos), e)
    ELSE << buf, pos, e >>

\* s.rfind(sub, 0, position), 0-based, -1 when sub does not occur
RFind(s, sub, position) ==
    LET found == { k \in 0..(Min(position, Len(s)) - Len(sub)) :
                     \A j \in 1..Len(sub) : s[k + j] = sub[j] }
    IN  IF found = {} THEN -1
        ELSE CHOOSE k \in found : \A m \in found : m <= k

\* _find_paragraph_boundary(text, position, 'backward')
FindParagraphBoundaryBackward(t, position) ==
    IF RFind(t, <<NL, NL>>, position) # -1 THEN RFind(t, <<NL, NL>>, position) + 2
    ELSE IF RFind(t, <<NL>>, position) # -1 THEN RFind(t, <<NL>>, position) + 2
    ELSE 0

\* re.sub(r'\n{3,}', '\n\n', s)
RECURSIVE CollapseNewlines(_)
CollapseNewlines(s) ==
    IF Len(s) = 0 THEN <<>>
    ELSE IF Len(s) >= 3 /\ s[1] = NL /\ s[2] = NL /\ s[3] = NL
         THEN CollapseNewlines(Tail(s))
         ELSE << s[1] >> \o CollapseNewlines(Tail(s))

\* preprocess_chunk(s, ...): the header, footer and contents patterns need
\* letters the streams here do not have
PreprocessChunk(s) == Strip(CollapseNewlines(s))

\* s[n:]
Suffix(s, n) == IF n >= Len(s) THEN <<>> ELSE SubSeq(s, n + 1, Len(s))

\* end_pos of the chunk cut from the buffer
EndPos(buf) ==
    IF Min(Len(buf), MaxChunkSize) < Len(buf)
    THEN FindParagraphBoundaryBackward(buf, Min(Len(buf), MaxChunkSize))
    ELSE Min(Len(buf), MaxChunkSize)

InitChunk ==
    /\ PipelineIdle
    /\ TTSIdle
    /\ input_stream \in InputSet
    /\ stream_pos = 0
    /\ buffer = <<>>
    /\ eof = FALSE
    /\ chunk_count = 0
    /\ yielded = 0
    /\ cpc = "read"

\* the inner loop: lines are read until the buffer is large enough or EOF
ChunkRead ==
    /\ cpc = "read"
    /\ \E filled \in { FillBuffer(buffer, input_stream, stream_pos, eof) } :
          /\ buffer' = filled[1]
          /\ stream_pos' = filled[2]
          /\ eof' = filled[3]
    /\ cpc' = "process"
    /\ UNCHANGED << input_stream, chunk_count, yielded >>
    /\ UNCHANGED << pipeline_vars, tts_vars >>

\* "if not buffer and eof: break"
ChunkFinished ==
    /\ cpc = "process"
    /\ Len(buffer) = 0 /\ eof
    /\ cpc' = "done"
    /\ UNCHANGED << input_stream, stream_pos, buffer, eof, chunk_count, yielded >>
    /\ UNCHANGED << pipeline_vars, tts_vars >>

\* the last chunk: the rest of the stream fits into one chunk
ChunkLast ==
    /\ cpc = "process"
    /\ ~(Len(buffer) = 0 /\ eof)
    /\ Len(buffer) <= MaxChunkSize /\ eof
    /\ yielded' = IF Len(PreprocessChunk(buffer)) > 0
                  THEN Min(yielded + 1, MaxChunkCount) ELSE yielded
    /\ cpc' = "done"
    /\ UNCHANGED << input_stream, stream_pos, buffer, eof, chunk_count >>
    /\ UNCHANGED << pipeline_vars, tts_vars >>

\* a chunk is cut at a paragraph boundary and the buffer is moved on,
\* keeping the overlap
ChunkEmit ==
    /\ cpc = "process"
    /\ ~(Len(buffer) = 0 /\ eof)
    /\ ~(Len(buffer) <= MaxChunkSize /\ eof)
    /\ \E end_pos \in { EndPos(buffer) } :
          /\ IF Len(PreprocessChunk(Prefix(buffer, end_pos))) > 0
             THEN /\ yielded' = Min(yielded + 1, MaxChunkCount)
                  /\ chunk_count' = Min(chunk_count + 1, MaxChunkCount)
             ELSE UNCHANGED << yielded, chunk_count >>
          /\ IF eof /\ end_pos >= Len(buffer)
             THEN cpc' = "done" /\ buffer' = buffer
             ELSE /\ buffer' = Suffix(buffer, Max(0, end_pos - Overlap))
                  /\ cpc' = IF Len(Suffix(buffer, Max(0, end_pos - Overlap))) = 0
                            THEN "done" ELSE "read"
    /\ UNCHANGED << input_stream, stream_pos, eof >>
    /\ UNCHANGED << pipeline_vars, tts_vars >>

NextChunk ==
    \/ ChunkRead
    \/ ChunkFinished
    \/ ChunkLast
    \/ ChunkEmit

\* the consumer of the generator keeps asking for the next chunk
SpecChunk == InitChunk /\ [][NextChunk]_vars /\ WF_vars(NextChunk)

\* ------------------------------------------------ TTSService.synthesize
\* None of a str | None field; like the empty string it is falsy
NoneStr == <<>>
\* timings = None, told apart from every list of timings
NoTimings == << "None" >>

DefaultVoice == <<"J", "o", "a", "n", "n", "a">>
DefaultEngine == <<"s", "t", "a", "n", "d", "a", "r", "d">>
OtherVoice == <<"M", "a", "t", "t", "h", "e", "w">>

\* the TTSRequest values handed to synthesize
RequestSet ==
    { [ text |-> <<"h", "i">>, voice_id |-> v, engine |-> NoneStr ] :
        v \in { NoneStr, DefaultVoice, OtherVoice } }

\* the word timings Polly may return for a text: no word, or one
PollyTimingsSet == { <<>>, << "word" >> }

\* the three objects stored per synthesis
KindSet == { "audio.mp3", "text.json", "timings.json" }

\* request.voice_id or "Joanna"
EffectiveVoice(request) ==
    IF Len(request.voice_id) = 0 THEN DefaultVoice ELSE request.voice_id

\* request.engine or "standard"
EffectiveEngine(request) ==
    IF Len(request.engine) = 0 THEN DefaultEngine ELSE request.engine

\* hashlib.sha256(s).hexdigest(): one digest per string, no collisions
Sha256(str) == << "sha256", str >>

\* _generate_cache_key(text, voice_id, engine)
GenerateCacheKey(t, voice_id, engine) ==
    Sha256(t \o <<":">> \o voice_id \o <<":">> \o engine)

\* _build_s3_keys(voice_id, cache_key, engine): the key of one kind
BuildS3Key(voice_id, cache_key, engine, kind) ==
    << "polly", engine, voice_id, cache_key, kind >>

\* the key is built with the engine as the request names it
AudioKey_RawEngine(request) ==
    BuildS3Key(EffectiveVoice(request),
               GenerateCacheKey(request.text, EffectiveVoice(request),
                                EffectiveEngine(request)),
               request.engine, "audio.mp3")

\* the audio key synthesize computes for a request
AudioKey(request) ==
    BuildS3Key(EffectiveVoice(request),
               GenerateCacheKey(request.text, EffectiveVoice(request),
                                EffectiveEngine(request)),
               EffectiveEngine(request), "audio.mp3")

\* _object_exists(s3, bucket, key)
ObjectExists(bucket, key) == key \in bucket

CallIds == 1..MaxCalls

\* a synthesize call that has not been made yet
IdleCall ==
    [ pc |-> "idle", request |-> [ text |-> <<>>, voice_id |-> NoneStr,
                                   engine |-> NoneStr ],
      cache_key |-> <<>>, polly_called |-> FALSE, timing_objs |-> <<>>,
      pending |-> {}, after |-> {},
      response |-> [ cached |-> FALSE, cache_key |-> <<>>, timings |-> NoTimings ] ]

InitTTS ==
    /\ PipelineIdle
    /\ ChunkerIdle
    /\ s3 = {}
    /\ calls = [ c \in CallIds |-> IdleCall ]
    /\ BatchIdle

\* synthesize(request) is called: voice, engine and cache key are computed
\* and the head_object request for the audio key is sent
SynthesizeStartWith(c, requests) ==
    /\ calls[c].pc = "idle"
    /\ \E request \in requests :
          calls' = [calls EXCEPT ![c] =
              [ @ EXCEPT !.pc = "head",
                         !.request = request,
                         !.cache_key = GenerateCacheKey(request.text,
                                           EffectiveVoice(request),
                                           EffectiveEngine(request)),
                         !.after = { d \in CallIds : calls[d].pc = "done" } ] ]
    /\ UNCHANGED s3
    /\ UNCHANGED << pipeline_vars, chunker_vars, batch_vars >>

SynthesizeStart(c) == SynthesizeStartWith(c, RequestSet)

\* process_item(idx, req) of synthesize_batch: the response synthesize
\* returned is appended with the item's index (nothing is collected for a
\* call made outside a batch)
Collected(c, response) ==
    IF bpc = "running" THEN Append(temp_results, << c - 1, response >>)
    ELSE temp_results

\* the audio object exists: the three URLs are presigned and the cached
\* response is returned
CacheHit(c) ==
    /\ calls[c].pc = "head"
    /\ ObjectExists(s3, AudioKey(calls[c].request))
    /\ calls' = [calls EXCEPT ![c] =
          [ @ EXCEPT !.pc = "done",
                     !.response = [ cached |-> TRUE,
                                    cache_key |-> calls[c].cache_key,
                                    timings |-> NoTimings ] ] ]
    /\ temp_results' = Collected(c, [ cached |-> TRUE,
                                      cache_key |-> calls[c].cache_key,
                                      timings |-> NoTimings ])
    /\ UNCHANGED << s3, batch_items, batch_results, bpc >>
    /\ UNCHANGED << pipeline_vars, chunker_vars >>

\* the audio object does not exist: Polly is asked for audio and speech marks
CacheMiss(c) ==
    /\ calls[c].pc = "head"
    /\ ~ObjectExists(s3, AudioKey(calls[c].request))
    /\ calls' = [calls EXCEPT ![c] = [ @ EXCEPT !.pc = "polly",
                                                !.polly_called = TRUE ] ]
    /\ UNCHANGED s3
    /\ UNCHANGED << pipeline_vars, chunker_vars, batch_vars >>

\* _synthesize_with_polly returns and the three put_object tasks are started
PollyDone(c) ==
    /\ calls[c].pc = "polly"
    /\ \E timing_objs \in PollyTimingsSet :
          calls' = [calls EXCEPT ![c] = [ @ EXCEPT !.pc = "upload",
                                                  !.timing_objs = timing_objs,
                                                  !.pending = KindSet ] ]
    /\ UNCHANGED s3
    /\ UNCHANGED << pipeline_vars, chunker_vars, batch_vars >>

\* _synthesize_with_polly raises: nothing catches it
PollyFail(c) ==
    /\ calls[c].pc = "polly"
    /\ calls' = [calls EXCEPT ![c] = [ @ EXCEPT !.pc = "raised" ] ]
    /\ UNCHANGED s3
    /\ UNCHANGED << pipeline_vars, chunker_vars, batch_vars >>

\* one of the concurrent put_object tasks stores its object
PutObject(c, kind) ==
    /\ calls[c].pc = "upload"
    /\ kind \in calls[c].pending
    /\ s3' = s3 \cup { BuildS3Key(EffectiveVoice(calls[c].request), calls[c].cache_key,
                                   EffectiveEngine(calls[c].request), kind) }
    /\ calls' = [calls EXCEPT ![c] = [ @ EXCEPT !.pending = @ \ { kind } ] ]
    /\ UNCHANGED << pipeline_vars, chunker_vars, batch_vars >>

\* one of the put_object tasks raises: the task group cancels the others
\* and the exception leaves synthesize
PutFail(c, kind) ==
    /\ calls[c].pc = "upload"
    /\ kind \in calls[c].pending
    /\ calls' = [calls EXCEPT ![c] = [ @ EXCEPT !.pc = "raised", !.pending = {} ] ]
    /\ UNCHANGED s3
    /\ UNCHANGED << pipeline_vars, chunker_vars, batch_vars >>

\* the upload task group has ended: the URLs are presigned and the response
\* of a fresh synthesis is returned
UploadsDone(c) ==
    /\ calls[c].pc = "upload"
    /\ calls[c].pending = {}
    /\ calls' = [calls EXCEPT ![c] =
          [ @ EXCEPT !.pc = "done",
                     !.response = [ cached |-> FALSE,
                                    cache_key |-> calls[c].cache_key,
                                    timings |-> calls[c].timing_objs ] ] ]
    /\ temp_results' = Collected(c, [ cached |-> FALSE,
                                      cache_key |-> calls[c].cache_key,
                                      timings |-> calls[c].timing_objs ])
    /\ UNCHANGED << s3, batch_items, batch_results, bpc >>
    /\ UNCHANGED << pipeline_vars, chunker_vars >>

NextTTS ==
    \/ \E c \in CallIds : SynthesizeStart(c)
    \/ \E c \in CallIds : CacheHit(c)
    \/ \E c \in CallIds : CacheMiss(c)
    \/ \E c \in CallIds : PollyDone(c)
    \/ \E c \in CallIds : PollyFail(c)
    \/ \E c \in CallIds : \E kind \in KindSet : PutObject(c, kind)
    \/ \E c \in CallIds : \E kind \in KindSet : PutFail(c, kind)
    \/ \E c \in CallIds : UploadsDone(c)

SpecTTS == InitTTS /\ [][NextTTS]_vars

\* ------------------------------------------- TTSService.synthesize_batch
\* insert tuple x into the sorted sequence s after every tuple whose index
\* is not larger
RECURSIVE InsertByIndex(_, _)
InsertByIndex(s, x) ==
    IF Len(s) = 0 THEN <<x>>
    ELSE IF s[Len(s)][1] <= x[1] THEN Append(s, x)
    ELSE Append(InsertByIndex(SubSeq(s, 1, Len(s) - 1), x), s[Len(s)])

\* temp_results.sort(key=lambda x: x[0])
RECURSIVE SortByIndex(_)
SortByIndex(s) ==
    IF Len(s) = 0 THEN <<>>
    ELSE InsertByIndex(SortByIndex(SubSeq(s, 1, Len(s) - 1)), s[Len(s)])

\* the responses in the order the calls completed
BatchResults_CompletionOrder(temp) ==
    [ k \in 1..Len(temp) |-> temp[k][2] ]

\* temp_results.sort(...); results = [result for _, result in temp_results]
BatchResults(temp) ==
    [ k \in 1..Len(temp) |-> SortByIndex(temp)[k][2] ]

\* synthesize_batch(batch_request) has started one process_item task per item
InitBatch ==
    /\ PipelineIdle
    /\ ChunkerIdle
    /\ s3 = {}
    /\ calls = [ c \in CallIds |-> IdleCall ]
    /\ batch_items \in SeqsUpTo(RequestSet, MaxCalls)
    /\ temp_results = <<>>
    /\ batch_results = <<>>
    /\ bpc = "running"

BatchItemIds == 1..Len(batch_items)

\* a process_item task has ended with an exception: the task group has
\* cancelled its scope
BatchScopeCancelled == \E c \in BatchItemIds : calls[c].pc = "raised"

\* the tasks of the batch run while its scope is not cancelled
BatchRunning == bpc = "running" /\ ~BatchScopeCancelled

\* process_item(idx, req) calls synthesize(req)
ProcessItem(c) ==
    /\ BatchRunning
    /\ c \in BatchItemIds
    /\ SynthesizeStartWith(c, { batch_items[c] })

\* process_item(idx, req) is cancelled at its next checkpoint
ItemCancelled(c) ==
    /\ bpc = "running"
    /\ BatchScopeCancelled
    /\ c \in BatchItemIds
    /\ calls[c].pc \notin { "done", "raised", "cancelled" }
    /\ calls' = [calls EXCEPT ![c] = [ @ EXCEPT !.pc = "cancelled", !.pending = {} ] ]
    /\ UNCHANGED << s3, batch_vars >>
    /\ UNCHANGED << pipeline_vars, chunker_vars >>

\* the task group exits with the exception of a failed task: it leaves
\* synthesize_batch
BatchRaise ==
    /\ bpc = "running"
    /\ BatchScopeCancelled
    /\ \A c \in BatchItemIds : calls[c].pc \in { "done", "raised", "cancelled" }
    /\ bpc' = "raised"
    /\ UNCHANGED << s3, calls, batch_items, temp_results, batch_results >>
    /\ UNCHANGED << pipeline_vars, chunker_vars >>

\* the task group exits normally: temp_results is sorted by index and the
\* responses are returned
BatchJoined ==
    /\ bpc = "running"
    /\ \A c \in BatchItemIds : calls[c].pc = "done"
    /\ batch_results' = BatchResults(temp_results)
    /\ bpc' = "done"
    /\ UNCHANGED << s3, calls, batch_items, temp_results >>
    /\ UNCHANGED << pipeline_vars, chunker_vars >>

NextBatch ==
    \/ \E c \in CallIds : ProcessItem(c)
    \/ \E c \in CallIds : BatchRunning /\ CacheHit(c)
    \/ \E c \in CallIds : BatchRunning /\ CacheMiss(c)
    \/ \E c \in CallIds : BatchRunning /\ PollyDone(c)
    \/ \E c \in CallIds : BatchRunning /\ PollyFail(c)
    \/ \E c \in CallIds : \E kind \in KindSet : BatchRunning /\ PutObject(c, kind)
    \/ \E c \in CallIds : \E kind \in KindSet : BatchRunning /\ PutFail(c, kind)
    \/ \E c \in CallIds : BatchRunning /\ UploadsDone(c)
    \/ \E c \in CallIds : ItemCancelled(c)
    \/ BatchRaise
    \/ BatchJoined

SpecBatch == InitBatch /\ [][NextBatch]_vars

\* ------------------------------------------------------------- properties
DocLines == Split(text)
LineCount == Len(DocLines)

\* the 0-based indices of the lines on which pattern p matches
MatchSetIn(lines, p) == { i \in 0..(Len(lines) - 1) : Search(p, lines[i + 1]) }

\* the 0-based indices of the document lines on which pattern p matches
MatchSet(p) == MatchSetIn(DocLines, p)

\* the pairs of boundary_pairs that are valid, in order
IsValidPair(pair) == pair.is_valid
ValidPairs == SelectSeq(boundary_pairs, IsValidPair)

\* the LM's verdict is a passing one for the spec: correct, confidence >= 0.8
VerdictAtLeast(r) == r.is_correct /\ r.confidence >= ConfidenceThreshold

\* C1: after validate_patterns a pair is valid if and only if both patterns
\* compile, each matches exactly one line of the document, and the start
\* line lies strictly before the end line; zero or several matches give
\* is_valid = false.
C1_ValidIffUniqueOrdered ==
    \A n \in 1..Len(boundary_pairs) : \A lines \in { DocLines } :
        \A pair \in { boundary_pairs[n] } :
        \A S \in { MatchSetIn(lines, pair.start_pattern) } :
        \A E \in { MatchSetIn(lines, pair.end_pattern) } :
            pair.is_valid <=>
              /\ Compiles(pair.start_pattern)
              /\ Compiles(pair.end_pattern)
              /\ Cardinality(S) = 1
              /\ Cardinality(E) = 1
              /\ \A i \in S, j \in E : i < j

\* a validated pair whose start pattern is unique and whose end pattern
\* matches several lines, next to none: it is rejected
C1_Witness ==
    \E n \in 1..Len(boundary_pairs) :
        LET pair == boundary_pairs[n]
        IN  /\ Compiles(pair.start_pattern)
            /\ Compiles(pair.end_pattern)
            /\ Cardinality(MatchSet(pair.start_pattern)) = 1
            /\ Cardinality(MatchSet(pair.end_pattern)) >= 2
            /\ ~pair.is_valid

\* C2: after validate_patterns every valid pair has both line fields set,
\* with 0 <= start_line < end_line < number of lines of the document.
C2_ValidPairLinesInRange ==
    \A n \in 1..Len(boundary_pairs) :
        boundary_pairs[n].is_valid =>
            /\ boundary_pairs[n].start_line # None
            /\ boundary_pairs[n].end_line # None
            /\ 0 <= boundary_pairs[n].start_line
            /\ boundary_pairs[n].start_line < boundary_pairs[n].end_line
            /\ boundary_pairs[n].end_line < LineCount

\* a valid pair that does not start on the first line, next to a pair
\* whose two unique matches are in the wrong order
C2_Witness ==
    /\ \E n \in 1..Len(boundary_pairs) :
          boundary_pairs[n].is_valid /\ boundary_pairs[n].start_line > 0
    /\ \E n \in 1..Len(boundary_pairs) :
          /\ ~boundary_pairs[n].is_valid
          /\ Compiles(boundary_pairs[n].start_pattern)
          /\ Compiles(boundary_pairs[n].end_pattern)
          /\ Cardinality(MatchSet(boundary_pairs[n].start_pattern)) = 1
          /\ Cardinality(MatchSet(boundary_pairs[n].end_pattern)) = 1

\* C3: every returned result has 0 <= start_line <= end_line < line count,
\* and its start_line and end_line are those validate_patterns recorded for
\* the pair of that chapter.
C3_ResultLinesAreStage3Lines ==
    pc = "done" =>
        /\ Len(out) = Len(ValidPairs)
        /\ \A k \in 1..Len(out) :
              /\ 0 <= out[k].start_line
              /\ out[k].start_line <= out[k].end_line
              /\ out[k].end_line < LineCount
              /\ out[k].start_line = ValidPairs[k].start_line
              /\ out[k].end_line = ValidPairs[k].end_line

\* a run that returned a result starting at line 0 and one starting later
C3_Witness ==
    /\ pc = "done"
    /\ \E k \in 1..Len(out) : out[k].start_line = 0
    /\ \E k \in 1..Len(out) : out[k].start_line > 0

\* C4: the text of every returned result is the document's lines start_line
\* to end_line inclusive, joined by newlines.
C4_TextIsInclusiveRange ==
    pc = "done" =>
        \A k \in 1..Len(out) :
            out[k].text =
                Join(SubSeq(DocLines, out[k].start_line + 1, out[k].end_line + 1))

\* a run that returned a chapter of three lines
C4_Witness ==
    /\ pc = "done"
    /\ \E k \in 1..Len(out) :
          /\ out[k].end_line = out[k].start_line + 2
          /\ Len(Split(out[k].text)) = 3

\* C5: verification_passed is true if and only if the LM's verify response
\* had is_correct = true and confidence >= 0.8 (0.8 itself passes).
C5_PassedIffAtLeastThreshold ==
    \A k \in 1..Len(out) :
        out[k].verification_passed <=> VerdictAtLeast(lm_verify[k])

\* C6: no result has verification_passed = true unless the LM's verify
\* response had is_correct = true and confidence >= 0.8.
C6_PassedOnlyIfAtLeastThreshold ==
    \A k \in 1..Len(out) :
        out[k].verification_passed => VerdictAtLeast(lm_verify[k])

\* a returned result that passed, next to one the LM called incorrect with
\* high confidence
C6_Witness ==
    /\ pc = "done"
    /\ \E k \in 1..Len(out) : out[k].verification_passed
    /\ \E k \in 1..Len(out) :
          ~lm_verify[k].is_correct /\ lm_verify[k].confidence > ConfidenceThreshold

\* C7: the returned sequence holds exactly one result per valid pair, in the
\* order of the pairs, and none for an invalid pair; a result with a failing
\* verdict (is_correct false or confidence below 0.8) is returned with
\* verification_passed = false and the LM's notes.
C7_OneResultPerValidPair ==
    pc = "done" =>
        /\ Len(out) = Cardinality({ n \in 1..Len(boundary_pairs) :
                                      boundary_pairs[n].is_valid })
        /\ \A k \in 1..Len(out) :
              /\ out[k].chapter_number = ValidPairs[k].chapter_number
              /\ out[k].chapter_title = ValidPairs[k].chapter_title
              /\ out[k].verification_notes = lm_verify[k].notes
              /\ (~lm_verify[k].is_correct
                    \/ lm_verify[k].confidence < ConfidenceThreshold)
                 => ~out[k].verification_passed

\* a run with an invalid pair that returned a result with a failing verdict
C7_Witness ==
    /\ pc = "done"
    /\ \E n \in 1..Len(boundary_pairs) : ~boundary_pairs[n].is_valid
    /\ \E k \in 1..Len(out) :
          /\ lm_verify[k].is_correct
          /\ lm_verify[k].confidence < ConfidenceThreshold
          /\ ~out[k].verification_passed

\* C8: the returned sequence is sorted ascending by chapter_number (equal
\* numbers may be adjacent), whatever the order of the LM's list and of the
\* completion of the stage-2 tasks.
C8_OutputSortedByNumber ==
    pc = "done" =>
        \A i \in 1..Len(out) : \A j \in 1..Len(out) :
            i < j => out[i].chapter_number <= out[j].chapter_number

\* a run whose chapter list was not in ascending order and that returned
\* results for two different chapters
C8_Witness ==
    /\ pc = "done"
    /\ Len(out) >= 2
    /\ out[1].chapter_number < out[Len(out)].chapter_number
    /\ \E i \in 1..Len(chapters) : \E j \in 1..Len(chapters) :
          i < j /\ chapters[i][1] > chapters[j][1]

\* C9: when the stage-2 LM call of a chapter raises, extract_all_chapters
\* does not raise.
C9_BoundaryErrorIsolated ==
    SomeTaskFailed => pc # "raised"

\* C10: when the stage-4 verify call of a chapter raises, extract_all_chapters
\* does not raise: the results appended so far are not lost.
C10_VerifyErrorIsolated ==
    raised_by = "verify" => pc # "raised"

\* two entries of the parsed chapter list carry the same number
HasDuplicateNumbers(chs) ==
    \E i \in 1..Len(chs) : \E j \in 1..Len(chs) : i # j /\ chs[i][1] = chs[j][1]

\* C11: a parsed chapter list with a duplicate number makes the run fail
\* (IdentityConflict): no stage-2 call is issued and no result is returned.
C11_DuplicateNumbersRejected ==
    HasDuplicateNumbers(chapters) =>
        /\ pc = "raised"
        /\ Len(tasks) = 0
        /\ out = <<>>

\* C12: when stage 1 yields an empty chapter list, extract_all_chapters
\* returns an empty sequence: it does not raise, and it issues no
\* boundary-generation and no verification LM call.
C12_EmptyListReturnsEmpty ==
    (pc # "start" /\ raised_by # "identify" /\ chapters = <<>>) =>
        /\ Len(tasks) = 0
        /\ results = <<>>
        /\ lm_verify = <<>>
        /\ out = <<>>
        /\ pc \in { "stage2", "done" }
        /\ pc = "stage2" => (AllTasksEnded /\ ~SomeTaskFailed)

\* a run that returned after the LM listed no chapter
C12_Witness ==
    /\ pc = "done"
    /\ raised_by = "none"
    /\ chapters = <<>>
    /\ out = <<>>

\* a pattern of the pair is not a regex
HasBadPattern(pair) ==
    ~Compiles(pair.start_pattern) \/ ~Compiles(pair.end_pattern)

\* C15: a start or end pattern that fails to compile gives that pair
\* is_valid = false and does not abort the run: validate_patterns raises
\* nothing, returns every pair, and still validates every other pair.
C15_CompileFailureIsolated ==
    (pc \in { "stage4", "done" }
       /\ \E n \in 1..Len(boundary_pairs) : HasBadPattern(boundary_pairs[n])) =>
        /\ raised_by = "none"
        /\ Len(boundary_pairs) = Len(chapters)
        /\ \A lines \in { DocLines } : \A n \in 1..Len(boundary_pairs) :
              \A pair \in { boundary_pairs[n] } :
              \A S \in { MatchSetIn(lines, pair.start_pattern) } :
              \A E \in { MatchSetIn(lines, pair.end_pattern) } :
                  IF HasBadPattern(pair) THEN ~pair.is_valid
                  ELSE pair.is_valid <=>
                         /\ Cardinality(S) = 1
                         /\ Cardinality(E) = 1
                         /\ \A i \in S, j \in E : i < j

\* a pair with a pattern that does not compile, followed in the list by a
\* pair that validate_patterns found valid
C15_Witness ==
    /\ pc \in { "stage4", "done" }
    /\ \E n \in 1..Len(boundary_pairs) : \E m \in 1..Len(boundary_pairs) :
          /\ n < m
          /\ HasBadPattern(boundary_pairs[n])
          /\ ~boundary_pairs[n].is_valid
          /\ boundary_pairs[m].is_valid

\* the whitespace-separated tokens of s, each as its (first, last) position:
\* the maximal stretches of s without a whitespace character
TokenSpans(s) ==
    { span \in { i \in 1..Len(s) : ~IsSpace(s[i]) /\ (i = 1 \/ IsSpace(s[i - 1])) }
               \X { j \in 1..Len(s) : ~IsSpace(s[j]) /\ (j = Len(s) \/ IsSpace(s[j + 1])) } :
        /\ span[1] <= span[2]
        /\ \A i \in span[1]..span[2] : ~IsSpace(s[i]) }

\* C18: for every returned result, word_count equals the number of
\* whitespace-separated tokens of that result's text.
C18_WordCountIsTokenCount ==
    \A k \in 1..Len(out) :
        out[k].word_count = Cardinality(TokenSpans(out[k].text))

\* a returned result whose text has several lines and more words than lines
C18_Witness ==
    /\ pc = "done"
    /\ \E k \in 1..Len(out) :
          /\ Len(Split(out[k].text)) >= 2
          /\ out[k].word_count > Len(Split(out[k].text))

\* both patterns compile and one of them matches several lines of the document
IsAmbiguous(pair) ==
    /\ ~HasBadPattern(pair)
    /\ \/ Cardinality(MatchSet(pair.start_pattern)) >= 2
       \/ Cardinality(MatchSet(pair.end_pattern)) >= 2

\* the pair validated on its own: a fresh pair with the same chapter and
\* patterns, as the only element of the list
ValidatedAlone(pair) ==
    ValidatePatterns(text, << NewPair(pair.chapter_number, pair.chapter_title,
                                      pair.start_pattern, pair.end_pattern) >>)[1]

\* C17: the validity of each pair is decided independently of the other
\* pairs: is_valid and the line indices of a pair are those it gets when
\* validated on its own, a chapter with an ambiguous pattern is dropped from
\* the output, and the results of the other chapters are those of their own
\* pair.
C17_PairsDecidedIndependently ==
    pc \in { "stage4", "done" } =>
        /\ \A n \in 1..Len(boundary_pairs) :
              \A pair \in { boundary_pairs[n] } :
              \A alone \in { ValidatedAlone(pair) } :
                  /\ pair.is_valid = alone.is_valid
                  /\ pair.start_line = alone.start_line
                  /\ pair.end_line = alone.end_line
                  /\ pair.is_valid => ~IsAmbiguous(pair)
        /\ pc = "done" =>
              \A valid \in { ValidPairs } :
                  /\ Len(out) = Len(valid)
                  /\ \A k \in 1..Len(out) :
                        \A alone \in { ValidatedAlone(valid[k]) } :
                            /\ out[k].chapter_number = alone.chapter_number
                            /\ out[k].chapter_title = alone.chapter_title
                            /\ out[k].start_line = alone.start_line
                            /\ out[k].end_line = alone.end_line
                            /\ out[k].text = ExtractChapter(DocLines, alone)

\* a run that returned a result for chapter 2 and none for chapter 1, whose
\* start pattern matched several lines
C17_Witness ==
    /\ pc = "done"
    /\ \E n \in 1..Len(boundary_pairs) : \E m \in 1..Len(boundary_pairs) :
          /\ n < m
          /\ IsAmbiguous(boundary_pairs[n])
          /\ boundary_pairs[m].is_valid
          /\ \E k \in 1..Len(out) :
                out[k].chapter_number = boundary_pairs[m].chapter_number
          /\ \A k \in 1..Len(out) :
                out[k].chapter_number # boundary_pairs[n].chapter_number

\* the chapters of the list carry pairwise different titles
DistinctTitles(chs) ==
    \A i \in 1..Len(chs) : \A j \in 1..Len(chs) : i # j => chs[i][2] # chs[j][2]

\* the pair the stage-2 call of chapter i produced: the LM's response to
\* that call, in a fresh pair
PairOfCall(i) ==
    LET pair == CHOOSE p \in { boundary_pairs[n] : n \in 1..Len(boundary_pairs) } :
                    p.chapter_title = chapters[i][2]
    IN  NewPair(chapters[i][1], chapters[i][2], pair.start_pattern, pair.end_pattern)

\* the valid pairs of the run in which the stage-2 calls complete in the
\* order of the chapter list, with the same response to each call
InOrderValidPairs ==
    SelectSeq(ValidatePatterns(text,
                  SortByNumber([ i \in 1..Len(chapters) |-> PairOfCall(i) ])),
              IsValidPair)

\* C13: for the same document and the same LM response to each call, the
\* returned result sequence is the same for every completion order of the
\* concurrent stage-2 calls: it is the one of the run in which the calls
\* complete in the order of the chapter list.
C13_SameOutputForEveryCompletionOrder ==
    (pc = "done" /\ DistinctTitles(chapters)) =>
        /\ Len(out) = Len(InOrderValidPairs)
        /\ \A k \in 1..Len(out) :
              /\ out[k].chapter_number = InOrderValidPairs[k].chapter_number
              /\ out[k].chapter_title = InOrderValidPairs[k].chapter_title
              /\ out[k].start_line = InOrderValidPairs[k].start_line
              /\ out[k].end_line = InOrderValidPairs[k].end_line

\* C14: validate_patterns is a pure function of (document, patterns): the
\* is_valid, start_line and end_line it leaves in a pair are those it
\* produces for a fresh pair with the same patterns on the same document,
\* whatever the three fields held before the call.
C14_ValidateIsPureFunction ==
    pc \in { "validated", "revalidated" } =>
        \A n \in 1..Len(boundary_pairs) :
            /\ boundary_pairs[n].is_valid = ValidatedAlone(boundary_pairs[n]).is_valid
            /\ boundary_pairs[n].start_line = ValidatedAlone(boundary_pairs[n]).start_line
            /\ boundary_pairs[n].end_line = ValidatedAlone(boundary_pairs[n]).end_line

\* C16: when the extract_all_chapters call is cancelled while LM calls are
\* outstanding, all outstanding LM calls are cancelled (from then on no
\* stage-2 call delivers its patterns and no verify call delivers its
\* verdict) and no partial result sequence is returned to the caller.
C16_CancelStopsOutstandingCalls ==
    /\ [](cancel_requested /\ pc = "done" => Len(out) = Len(ValidPairs))
    /\ [][cancel_requested =>
            /\ Len(results') = Len(results)
            /\ Len(lm_verify') = Len(lm_verify)]_vars

\* the stream has a character that is not whitespace
HasContent(s) == \E i \in 1..Len(s) : ~IsSpace(s[i])

\* C19: chunk_stream terminates on every finite input stream; it yields at
\* least one chunk for an input with content, a single line longer than
\* max_chunk_size without newline included, and no chunk for empty input.
C19_ChunkStreamTerminates ==
    /\ <>(cpc = "done")
    /\ [](cpc = "done" =>
            /\ HasContent(input_stream) => yielded >= 1
            /\ Len(input_stream) = 0 => yielded = 0)

\* the two calls ask for the same text, voice and engine
SameRequest(c, d) ==
    /\ calls[c].request.text = calls[d].request.text
    /\ EffectiveVoice(calls[c].request) = EffectiveVoice(calls[d].request)
    /\ EffectiveEngine(calls[c].request) = EffectiveEngine(calls[d].request)

C21_BatchResultsInItemOrder ==
    bpc = "done" =>
        /\ Len(batch_results) = Len(batch_items)
        /\ \A k \in BatchItemIds :
              /\ batch_results[k] = calls[k].response
              /\ batch_results[k].cache_key =
                    GenerateCacheKey(batch_items[k].text,
                                     EffectiveVoice(batch_items[k]),
                                     EffectiveEngine(batch_items[k]))

\* a batch that returned after its second item completed before its first,
\* with different responses for the two
C21_Witness ==
    /\ bpc = "done"
    /\ Len(temp_results) >= 2
    /\ temp_results[1][1] > temp_results[2][1]
    /\ batch_results[1] # batch_results[2]

\* C22: in stage 2 the failure of one chapter's boundary-generation task
\* does not cancel the sibling tasks of the other chapters: every other
\* chapter's LM call runs to completion and its pair is collected.
C22_FailureDoesNotCancelSiblings ==
    SomeTaskFailed =>
        /\ \A i \in 1..Len(tasks) : tasks[i] # "cancelled"
        /\ AllTasksEnded =>
              Len(results) = Cardinality({ i \in 1..Len(tasks) : tasks[i] # "failed" })

\* the positions in boundary_pairs of the pairs whose verify call has been
\* made and has not returned: the loop awaits each call before the next
VerifyCallsOutstanding == IF pc = "stage4" THEN { idx } ELSE {}

\* C23: stage 4 fans out like stage 2: the verification LM calls of the
\* valid pairs run concurrently, one task per chapter (when stage 4 starts,
\* the call of every valid pair is outstanding), and their results are
\* emitted in the original chapter order.
C23_VerifyCallsRunConcurrently ==
    /\ (pc = "stage4" /\ out = <<>>) =>
          VerifyCallsOutstanding =
              { n \in 1..Len(boundary_pairs) : boundary_pairs[n].is_valid }
    /\ pc = "done" =>
          /\ Len(out) = Len(ValidPairs)
          /\ \A k \in 1..Len(out) :
                out[k].chapter_number = ValidPairs[k].chapter_number

\* C24: the stages of extract_all_chapters run in strict order: no
\* boundary-generation call starts before the identification call has
\* returned, validation starts only after every boundary-generation call
\* has finished, and no verification call starts before validation of all
\* pairs has finished.
C24_StagesInStrictOrder ==
    /\ (Len(tasks) > 0 \/ Len(results) > 0) => pc # "start"
    /\ (Len(boundary_pairs) > 0 \/ pc \in { "stage4", "done" }) =>
          /\ \A i \in 1..Len(tasks) : tasks[i] = "done"
          /\ Len(boundary_pairs) = Len(chapters)
          /\ Len(results) = Len(chapters)
    /\ (Len(lm_verify) > 0 \/ pc = "stage4") =>
          /\ Len(boundary_pairs) = Len(chapters)
          /\ \A n \in 1..Len(boundary_pairs) :
                boundary_pairs[n].is_valid =>
                    /\ boundary_pairs[n].start_line # None
                    /\ boundary_pairs[n].end_line # None
          /\ pc = "stage4" => (idx \in 1..Len(boundary_pairs) /\ boundary_pairs[idx].is_valid)

\* a run of two chapters in which one verify call has returned and the
\* next is outstanding
C24_Witness ==
    /\ pc = "stage4"
    /\ Len(chapters) = 2
    /\ Len(lm_verify) = 1
    /\ \A i \in 1..Len(tasks) : tasks[i] = "done"

\* C25: the core never retries an LM call: in one run there is one
\* identification call, one boundary-generation call per identified chapter
\* (one task each, each answered call collected once) and one verification
\* call per pair that is valid after stage 3, in the order of the pairs and
\* none for an invalid pair; a call that raised ends the run.
C25_NoLMCallIsRetried ==
    /\ pc # "start" => Len(tasks) = Len(chapters)
    /\ pc \in { "start", "stage2" } =>
          Len(results) = Cardinality({ i \in 1..Len(tasks) : tasks[i] = "done" })
    /\ Len(lm_verify) = Len(out)
    /\ Len(lm_verify) <= Len(ValidPairs)
    /\ \A k \in 1..Len(lm_verify) :
          /\ out[k].chapter_number = ValidPairs[k].chapter_number
          /\ out[k].chapter_title = ValidPairs[k].chapter_title
          /\ lm_verify[k].extracted_text = Prefix(out[k].text, VerifyWindow)
    /\ pc = "done" =>
          /\ Len(results) = Len(chapters)
          /\ Len(lm_verify) = Len(ValidPairs)
    /\ raised_by # "none" => pc = "raised"

\* a run that returned after one verify call, for the valid one of its two
\* pairs
C25_Witness ==
    /\ pc = "done"
    /\ Len(chapters) = 2
    /\ Len(ValidPairs) = 1
    /\ Len(lm_verify) = 1

\* C26: for any chapter_list string the LM returns, every identity that
\* identify_chapters returns has a positive integer number and a non-empty
\* title with no leading or trailing whitespace; a line that is not of the
\* form '<digits>. <title>' is skipped and does not fail the run.
C26_IdentitiesAreWellFormed ==
    pc # "start" =>
        /\ raised_by = "none"
        /\ \A i \in 1..Len(chapters) :
              /\ chapters[i][1] > 0
              /\ Len(chapters[i][2]) > 0
              /\ ~IsSpace(chapters[i][2][1])
              /\ ~IsSpace(chapters[i][2][Len(chapters[i][2])])

\* C27: when the chapter_count returned by stage 1 differs from the length
\* of the parsed chapter list, the run does not fail (only an LM call that
\* raises ends it) and stages 2 to 4 process exactly the parsed list: the
\* number of boundary-generation tasks equals the parsed list length, not
\* chapter_count.
C27_ParsedListWinsOverCount ==
    (pc # "start" /\ raised_by # "identify" /\ chapter_count # Len(chapters)) =>
        /\ Len(tasks) = Len(chapters)
        /\ pc = "raised" =>
              \/ raised_by = "boundary" /\ (\E i \in 1..Len(tasks) : tasks[i] = "failed")
              \/ raised_by = "verify"
        /\ pc \in { "stage4", "done" } => Len(boundary_pairs) = Len(chapters)
        /\ pc = "done" => Len(out) = Len(ValidPairs)

\* a run that returned a result for each of its two parsed chapters after
\* the LM counted three
C27_Witness ==
    /\ pc = "done"
    /\ chapter_count > Len(chapters)
    /\ Len(chapters) = 2
    /\ Len(out) = 2

\* C28: validate_patterns returns the same sequence of pairs it was given,
\* in the same order and of the same length, and leaves each pair's
\* chapter_number, chapter_title, start_pattern and end_pattern unchanged;
\* it only writes is_valid, start_line and end_line.
C28_ValidateKeepsSequenceAndPatterns ==
    [][ pc' \in { "validated", "revalidated" } =>
          /\ Len(boundary_pairs') = Len(boundary_pairs)
          /\ \A n \in 1..Len(boundary_pairs) :
                /\ boundary_pairs'[n].chapter_number = boundary_pairs[n].chapter_number
                /\ boundary_pairs'[n].chapter_title = boundary_pairs[n].chapter_title
                /\ boundary_pairs'[n].start_pattern = boundary_pairs[n].start_pattern
                /\ boundary_pairs'[n].end_pattern = boundary_pairs[n].end_pattern ]_vars

\* a list of two pairs validated a second time, the first pair invalid and
\* the second valid
C28_Witness ==
    /\ pc = "revalidated"
    /\ Len(boundary_pairs) = 2
    /\ ~boundary_pairs[1].is_valid
    /\ boundary_pairs[2].is_valid
    /\ boundary_pairs[1].start_pattern # boundary_pairs[2].start_pattern

\* C29: when generate_all_boundaries returns normally, its result holds
\* exactly one pair per input chapter (none lost, none duplicated), each
\* carrying the number and title of its chapter and the patterns of that
\* chapter's own LM response, with start_line and end_line unset and
\* is_valid false, for every interleaving of the concurrent tasks.
C29_OnePairPerChapterWithOwnPatterns ==
    pc = "returned" =>
        /\ Len(results) = Len(chapters)
        /\ \E pi \in [ 1..Len(chapters) -> 1..Len(chapters) ] :
              /\ \A i \in 1..Len(chapters) : \A j \in 1..Len(chapters) :
                    i # j => pi[i] # pi[j]
              /\ \A i \in 1..Len(chapters) :
                    results[pi[i]] = NewPair(chapters[i][1], chapters[i][2],
                                             lm_boundary[i][1], lm_boundary[i][2])
        /\ \A n \in 1..Len(results) :
              /\ results[n].start_line = None
              /\ results[n].end_line = None
              /\ ~results[n].is_valid

\* a call that returned the pairs of chapters 1 and 2, given in the order
\* 2, 1 and answered with different patterns, chapter 1 first
C29_Witness ==
    /\ pc = "returned"
    /\ Len(chapters) = 2
    /\ chapters[1][1] > chapters[2][1]
    /\ lm_boundary[1] # lm_boundary[2]
    /\ results[1].start_pattern = lm_boundary[2][1]
    /\ results[1].end_pattern = lm_boundary[2][2]

\* C30: whenever synthesize returns cached = true for a cache key, the
\* audio, text and timings objects of that key all exist in S3, including
\* when another synthesize call for the same key is concurrently uploading
\* its three objects.
C30_CachedMeansAllObjectsExist ==
    \A c \in CallIds :
        (calls[c].pc = "done" /\ calls[c].response.cached) =>
            \A kind \in KindSet :
                ObjectExists(s3, BuildS3Key(EffectiveVoice(calls[c].request),
                                            calls[c].response.cache_key,
                                            EffectiveEngine(calls[c].request), kind))

====
